---- MODULE Spec2Model ----
(***************************************************************************)
(* Model of pint.models.glitch.Glitch (src/src/pint/models/glitch.py):     *)
(* the constructor, setup (validation and normalisation of the per-glitch  *)
(* parameters), glitch_phase and the six d_phase_d_* derivative functions. *)
(*                                                                         *)
(* Numbers.  Parameter values, epochs (days) and delays are integers.      *)
(* Time differences are counted in ticks, TicksPerDay ticks to the day,    *)
(* the tick standing for the second of the source; frequencies are cycles  *)
(* per tick.  Phases and derivatives are exact: a value is a rational      *)
(* combination of 1 and of the numbers exp(-p/q), kept symbolically, so    *)
(* two values are equal as records exactly when they are equal as reals    *)
(* (exponentials of distinct rationals are linearly independent over the   *)
(* rationals).  Floating-point rounding is not modelled.                   *)
(***************************************************************************)
EXTENDS Integers, Sequences, FiniteSets, TLC

\* ------------------------------------------------------------------ bounds
\* Largest glitch index that appears in a parameter name.
MaxIndex == 2
\* Largest number of parameters given a value before setup.
MaxSupplied == 2
\* Number of TOAs in the table handed to an evaluation.
NToa == 2
\* Largest number of fields that differ at once from their loaded value while
\* the fields are re-fit.
MaxRefit == 1
\* Ticks in one day: the resolution of the model's time axis.  The source
\* converts days to seconds; the model converts days to ticks the same way.
TicksPerDay == 2
\* Values a supplied or re-fit field takes, and epochs (days).
FieldVals == {0, 1}
EpochVals == {0, 1}
\* The rows of a TOA table: <<time (days), delay (ticks)>>.  With the epochs
\* above they give dt < 0, dt = 0 and dt > 0.
TableRows == {<<1, 0>>, <<1, 1>>, <<2, 1>>}

Range(s) == {s[i] : i \in 1..Len(s)}

\* ------------------------------------------------------- exact arithmetic
Abs(n) == IF n < 0 THEN -n ELSE n

RECURSIVE GCDNat(_, _)
GCDNat(a, b) == IF b = 0 THEN a ELSE GCDNat(b, a % b)

GCD(a, b) == GCDNat(Abs(a), Abs(b))

RECURSIVE GCDSet(_)
GCDSet(S) ==
    IF S = {} THEN 0
    ELSE LET x == CHOOSE y \in S : TRUE IN GCD(x, GCDSet(S \ {x}))

\* The basis element exp(-p/q) is the pair <<p, q>> in lowest terms;
\* exp(0) = 1 is <<0, 1>>.
ONE == <<0, 1>>

\* A value: (sum over k in DOMAIN c of c[k] * exp(-k[1]/k[2])) / den, in
\* canonical form: no zero coefficient, den > 0, no common factor.  A
\* division by zero gives NaN (den = 0), which every operation propagates.
NaN == [den |-> 0, c |-> << >>]

Norm(den, c) ==
    IF den = 0 THEN NaN ELSE
    LET nz == {k \in DOMAIN c : c[k] # 0} IN
    IF den = 1 THEN [den |-> 1, c |-> [k \in nz |-> c[k]]] ELSE
    LET g0 == GCDSet({c[k] : k \in nz} \cup {den})
        g  == IF den < 0 THEN -g0 ELSE g0
    IN  [den |-> den \div g, c |-> [k \in nz |-> c[k] \div g]]

Coef(x, k) == IF k \in DOMAIN x.c THEN x.c[k] ELSE 0

Rat(n, d) == Norm(d, (ONE :> n))
Num(n) == Rat(n, 1)
Zero == Num(0)

NAdd(x, y) ==
    Norm(x.den * y.den,
         [k \in (DOMAIN x.c) \cup (DOMAIN y.c) |->
             Coef(x, k) * y.den + Coef(y, k) * x.den])

\* x * n / d for integers n, d with d # 0
NScale(x, n, d) == Norm(x.den * d, [k \in DOMAIN x.c |-> x.c[k] * n])

NNeg(x) == NScale(x, -1, 1)
NSub(x, y) == NAdd(x, NNeg(y))

\* np.exp(-dt / tau) for dt > 0 ticks and tau ticks.  tau = 0 divides by
\* zero: numpy yields inf (with a warning) and exp(-inf) is 0.
ExpNeg(dt, tau) ==
    IF tau = 0 THEN Zero
    ELSE LET g == GCD(dt, tau)
             s == IF tau < 0 THEN -1 ELSE 1
         IN  [den |-> 1, c |-> (<<s * (dt \div g), s * (tau \div g)>> :> 1)]

\* Quantity in days converted to the unit of dt.
ToTicks(days) == days * TicksPerDay

\* ------------------------------------------------------- parameter names
\* A parameter name is <<prefix, index>>: "GLF0_3" is <<"GLF0_", 3>>.
glitch_prop == <<"GLPH_", "GLF0_", "GLF1_", "GLF2_", "GLF0D_", "GLTD_">>
GLEP == "GLEP_"
Prefixes == Range(glitch_prop) \cup {GLEP}
Indices == 1..MaxIndex
Names == Prefixes \X Indices

\* split_prefixed_name / prefixParameter.index
Prefix(name) == name[1]
Index(name) == name[2]

\* ----------------------------------------------------- the Glitch object
\* Glitch.__init__: the seven index-1 parameters, in add_param order; every
\* family parameter has value 0.0, the epoch GLEP_1 has no value.
ConstructorParams ==
    << <<"GLPH_", 1>>, <<GLEP, 1>>, <<"GLF0_", 1>>, <<"GLF1_", 1>>,
       <<"GLF2_", 1>>, <<"GLF0D_", 1>>, <<"GLTD_", 1>> >>

\* A parameter without a value (value None) is in `unset`; val holds 0 there.
Glitch ==
    [params |-> ConstructorParams,
     val |-> [n \in Range(ConstructorParams) |-> 0],
     unset |-> {<<GLEP, 1>>},
     glitch_indices |-> << >>,
     deriv_funcs |-> {}]

\* hasattr(self, name)
HasAttr(obj, name) == name \in Range(obj.params)

\* getattr(self, name).value is None
IsNone(obj, name) == name \in obj.unset

\* self.add_param(param) with param.value = v
AddParam(obj, name, v) ==
    [obj EXCEPT !.params = Append(obj.params, name),
                !.val = [n \in Range(obj.params) \cup {name} |->
                            IF n = name THEN v ELSE obj.val[n]]]

\* getattr(self, name).value = v
SetValue(obj, name, v) ==
    [obj EXCEPT !.val[name] = v, !.unset = obj.unset \ {name}]

\* The parameter store giving a parameter of the par file its value: the
\* index-1 parameters exist already, any other is added at the end.
SupplyParam(obj, name, v) ==
    IF HasAttr(obj, name) THEN SetValue(obj, name, v) ELSE AddParam(obj, name, v)

\* ------------------------------------------------------------------ setup
NoErr == [type |-> "none", comp |-> "", key |-> << >>]
MissingParameter(comp, key) ==
    [type |-> "MissingParameter", comp |-> comp, key |-> key]

\* [getattr(self, y).index for x in self.glitch_prop for y in self.params
\*  if x in y]: family by family, each in params order.
RECURSIVE GlitchIndices(_, _)
GlitchIndices(params, k) ==
    IF k > Len(glitch_prop) THEN << >>
    ELSE LET fam == SelectSeq(params, LAMBDA y : Prefix(y) = glitch_prop[k])
         IN  [i \in 1..Len(fam) |-> Index(fam[i])] \o GlitchIndices(params, k + 1)

\* self.register_deriv_funcs(self.d_phase_d_<family>, name): the names that
\* have a derivative function registered.
RegisterDerivFuncs(obj, name) ==
    [obj EXCEPT !.deriv_funcs = obj.deriv_funcs \cup {name}]

\* The statement that gives a parameter created by setup its value.
CreatedValue == 0

\* NormaliseIndex without line 79: the created parameter keeps no value.
RECURSIVE NormaliseIndexNoValue(_, _, _)
NormaliseIndexNoValue(obj, idx, k) ==
    IF k > Len(glitch_prop) THEN obj
    ELSE LET name == <<glitch_prop[k], idx>>
             o0 == AddParam(obj, name, 0)
             o1 == IF ~HasAttr(obj, name)
                   THEN [o0 EXCEPT !.unset = o0.unset \cup {name}]
                   ELSE obj
         IN  NormaliseIndexNoValue(RegisterDerivFuncs(o1, name), idx, k + 1)

\* NormaliseIndex without the hasattr test of line 76: a parameter is added
\* and zeroed whether or not it exists.
RECURSIVE NormaliseIndexAlwaysAdd(_, _, _)
NormaliseIndexAlwaysAdd(obj, idx, k) ==
    IF k > Len(glitch_prop) THEN obj
    ELSE LET name == <<glitch_prop[k], idx>>
             o1 == AddParam(obj, name, CreatedValue)
         IN  NormaliseIndexAlwaysAdd(RegisterDerivFuncs(o1, name), idx, k + 1)

\* Lines 75-81 for one index: the families from the k-th on.  A family
\* parameter missing at idx is created from the index-1 parameter with value
\* 0.0; the derivative function is registered for every family.
RECURSIVE NormaliseIndex(_, _, _)
NormaliseIndex(obj, idx, k) ==
    IF k > Len(glitch_prop) THEN obj
    ELSE LET name == <<glitch_prop[k], idx>>
             o1 == IF ~HasAttr(obj, name)
                   THEN AddParam(obj, name, CreatedValue)
                   ELSE obj
         IN  NormaliseIndex(RegisterDerivFuncs(o1, name), idx, k + 1)

\* The epoch test of line 72.
EpochMissing(obj, idx) == ~HasAttr(obj, <<GLEP, idx>>)

\* Lines 71-81: the loop over set(self.glitch_indices), in the order `order`.
RECURSIVE CheckEpochs(_, _)
CheckEpochs(obj, order) ==
    IF order = << >> THEN [obj |-> obj, err |-> NoErr]
    ELSE LET idx == Head(order) IN
         IF EpochMissing(obj, idx)
         THEN [obj |-> obj, err |-> MissingParameter("Glitch", <<GLEP, idx>>)]
         ELSE CheckEpochs(NormaliseIndex(obj, idx, 1), Tail(order))

\* DecayUnset with the GLTD_ comparison inverted.
DecayUnsetInverted(obj, glf0dnm) ==
    /\ obj.val[glf0dnm] # 0
    /\ obj.val[<<"GLTD_", Index(glf0dnm)>>] # 0

\* The test of lines 88-89 on one GLF0D_ parameter.
DecayUnset(obj, glf0dnm) ==
    /\ obj.val[glf0dnm] # 0
    /\ obj.val[<<"GLTD_", Index(glf0dnm)>>] = 0

\* Lines 84-92: the first GLF0D_ parameter, in params order, that is nonzero
\* with a zero GLTD_ raises.
CheckDecay(obj) ==
    LET glf0dparams == SelectSeq(obj.params, LAMBDA x : Prefix(x) = "GLF0D_")
        bad == {i \in 1..Len(glf0dparams) : DecayUnset(obj, glf0dparams[i])}
    IN  IF bad = {} THEN NoErr
        ELSE LET i == CHOOSE j \in bad : \A h \in bad : j <= h
             IN  MissingParameter("Glitch", <<"GLTD_", Index(glf0dparams[i])>>)

\* Glitch.setup, the set of indices iterated in the order `order`.  The
\* object keeps what was done before an exception.
Setup(obj, order) ==
    LET o0 == [obj EXCEPT !.glitch_indices = GlitchIndices(obj.params, 1)]
        r  == CheckEpochs(o0, order)
    IN  IF r.err # NoErr THEN r
        ELSE [obj |-> r.obj, err |-> CheckDecay(r.obj)]

\* The orders in which a Python set of these indices may be iterated.
Orders(S) ==
    {s \in [1..Cardinality(S) -> S] : \A i, j \in 1..Cardinality(S) :
        i # j => s[i] # s[j]}

\* ------------------------------------------------------------ evaluation
\* dt = (tbl['tdbld'] - eph) * u.day - delay, in the unit of delay.
Dt(eph, toas, delay) ==
    [i \in 1..Len(toas) |-> ToTicks(toas[i] - eph) - delay[i]]

\* Affected with >= for >.
AffectedInclusive(dt) == {i \in DOMAIN dt : dt[i] >= 0}

\* The TOAs affected by the glitch in glitch_phase (line 122).
Affected(dt) == {i \in DOMAIN dt : dt[i] > 0}

\* np.where(dt > 0.0)[0] of the derivative functions.
AffectedWhere(dt) == {i \in DOMAIN dt : dt[i] > 0}

Half == Rat(1, 2)
Sixth == Rat(1, 6)

\* dphs + dt * (dF0 + 0.5 * dt * dF1 + 1./6. * dt * dt * dF2)
Poly(dphs, dF0, dF1, dF2, dt) ==
    NAdd(Num(dphs),
         NScale(NAdd(Num(dF0),
                     NAdd(NScale(Half, dt * dF1, 1),
                          NScale(Sixth, dt * dt * dF2, 1))),
                dt, 1))

\* dF0D * tau * (1.0 - np.exp(-(dt / tau).to(u.Unit("")))), tau in days.
DecayTerm(dF0D, tau, dt) ==
    NScale(NSub(Num(1), ExpNeg(dt, ToTicks(tau))), dF0D * ToTicks(tau), 1)

\* HasDecay without the test: the decay term is always evaluated.
HasDecayAlways(dF0D) == TRUE

\* The test of line 125 that decides whether the decay term is evaluated.
HasDecay(dF0D) == dF0D # 0

\* Accumulate with = for +=.
AccumulateAssign(prev, add) == add

\* phs[affected] += add (line 132)
Accumulate(prev, add) == NAdd(prev, add)

Ok == "ok"
ZeroArray(n) == [i \in 1..n |-> Zero]

\* One pass of the loop of glitch_phase (lines 113-134) for the epoch
\* parameter glepnm, on the accumulated result r.
EventPhase(obj, glepnm, toas, delay, r) ==
    LET idx == Index(glepnm)
        P(prefix) == <<prefix, idx>>
        V(prefix) == obj.val[P(prefix)]
    IN
    IF \E k \in 1..4 : ~HasAttr(obj, P(glitch_prop[k]))
    THEN [r EXCEPT !.status = "AttributeError"]
    ELSE IF IsNone(obj, glepnm)
    THEN [r EXCEPT !.status = "TypeError"]
    ELSE IF ~HasAttr(obj, P("GLF0D_"))
    THEN [r EXCEPT !.status = "AttributeError"]
    ELSE IF HasDecay(V("GLF0D_")) /\ ~HasAttr(obj, P("GLTD_"))
    THEN [r EXCEPT !.status = "AttributeError"]
    ELSE
    LET dt == Dt(obj.val[glepnm], toas, delay)
        affected == Affected(dt)
        decay == HasDecay(V("GLF0D_"))
        decayterm(i) == IF decay
                        THEN DecayTerm(V("GLF0D_"), V("GLTD_"), dt[i])
                        ELSE Zero
        add(i) == NAdd(Poly(V("GLPH_"), V("GLF0_"), V("GLF1_"), V("GLF2_"),
                            dt[i]),
                       decayterm(i))
    IN  [status |-> Ok,
         phs |-> [i \in 1..Len(toas) |->
                     IF i \in affected THEN Accumulate(r.phs[i], add(i))
                     ELSE r.phs[i]],
         decayed |-> IF decay THEN r.decayed \cup {idx} ELSE r.decayed,
         divzero |-> IF decay /\ V("GLTD_") = 0 /\ affected # {}
                     THEN r.divzero \cup {idx} ELSE r.divzero]

\* The loop of glitch_phase over the epoch parameters glepnames; an exception
\* ends it.
RECURSIVE PhaseLoop(_, _, _, _, _)
PhaseLoop(obj, glepnames, toas, delay, r) ==
    IF glepnames = << >> \/ r.status # Ok THEN r
    ELSE PhaseLoop(obj, Tail(glepnames), toas, delay,
                   EventPhase(obj, Head(glepnames), toas, delay, r))

\* phs = np.zeros_like(tbl)
PhaseStart(toas) ==
    [status |-> Ok, phs |-> ZeroArray(Len(toas)), decayed |-> {}, divzero |-> {}]

\* glepnames = [x for x in self.params if x.startswith('GLEP_')]
GlepNames(obj) == SelectSeq(obj.params, LAMBDA x : Prefix(x) = GLEP)

\* Glitch.glitch_phase(toas, delay).  decayed: the indices whose decay term
\* was evaluated; divzero: those where that divided by a zero tau.
glitch_phase(obj, toas, delay) ==
    PhaseLoop(obj, GlepNames(obj), toas, delay, PhaseStart(toas))

\* ------------------------------------------------------------ derivatives
DerivResult(status, arr, affected, divided) ==
    [status |-> status, arr |-> arr, affected |-> affected, divided |-> divided]

Raised(status) == DerivResult(status, << >>, {}, FALSE)

\* What every derivative function does first: the prefix test (ValueError),
\* then the look-up of the epoch and of the parameter (AttributeError).
DerivEntry(obj, prefix, param) ==
    IF Prefix(param) # prefix THEN "ValueError"
    ELSE IF ~HasAttr(obj, <<GLEP, Index(param)>>) \/ ~HasAttr(obj, param)
    THEN "AttributeError"
    ELSE Ok

\* eph = np.longdouble(getattr(self, "GLEP_" + ids).value); dt as in
\* glitch_phase; affected = np.where(dt > 0.0)[0].  An epoch without a value
\* converts to nan, and nan > 0.0 holds nowhere.
DerivAffected(obj, param, toas, delay) ==
    LET glepnm == <<GLEP, Index(param)>> IN
    IF IsNone(obj, glepnm) THEN {}
    ELSE AffectedWhere(Dt(obj.val[glepnm], toas, delay))

DerivDt(obj, param, toas, delay) ==
    Dt(obj.val[<<GLEP, Index(param)>>], toas, delay)

\* np.zeros(len(tbl)) with f(dt[i]) added at the affected entries.
DerivArray(obj, param, toas, delay, f(_)) ==
    LET affected == DerivAffected(obj, param, toas, delay)
        dt == DerivDt(obj, param, toas, delay)
    IN  [i \in 1..Len(toas) |-> IF i \in affected THEN f(dt[i]) ELSE Zero]

dpdGLPH(dt) == Num(1)
dpdGLF0(dt) == Num(dt)
\* dpdGLF1 without the factor 0.5.
dpdGLF1NoHalf(dt) == Num(dt * dt)
dpdGLF1(dt) == NScale(Half, dt * dt, 1)
dpdGLF2(dt) == NScale(Sixth, dt * dt * dt, 1)
\* tau * (1.0 - np.exp(-dt / tau)), tau in days, in cycles per (cycle/tick)
dpdGLF0D(tau, dt) ==
    NScale(NSub(Num(1), ExpNeg(dt, ToTicks(tau))), ToTicks(tau), 1)
\* glf0d * (1.0 - np.exp(-dt / tau))
\*   + glf0d * tau * (-np.exp(-dt / tau)) * dt / (tau * tau), in cycles per day
dpdGLTD(glf0d, tau, dt) ==
    NAdd(NScale(NSub(Num(1), ExpNeg(dt, ToTicks(tau))), ToTicks(glf0d), 1),
         NScale(NNeg(ExpNeg(dt, ToTicks(tau))), glf0d * tau * dt, tau * tau))

d_phase_d_GLPH(obj, toas, param, delay) ==
    LET e == DerivEntry(obj, "GLPH_", param) IN
    IF e # Ok THEN Raised(e)
    ELSE DerivResult(Ok, DerivArray(obj, param, toas, delay, dpdGLPH),
                     DerivAffected(obj, param, toas, delay), FALSE)

d_phase_d_GLF0(obj, toas, param, delay) ==
    LET e == DerivEntry(obj, "GLF0_", param) IN
    IF e # Ok THEN Raised(e)
    ELSE DerivResult(Ok, DerivArray(obj, param, toas, delay, dpdGLF0),
                     DerivAffected(obj, param, toas, delay), FALSE)

d_phase_d_GLF1(obj, toas, param, delay) ==
    LET e == DerivEntry(obj, "GLF1_", param) IN
    IF e # Ok THEN Raised(e)
    ELSE DerivResult(Ok, DerivArray(obj, param, toas, delay, dpdGLF1),
                     DerivAffected(obj, param, toas, delay), FALSE)

d_phase_d_GLF2(obj, toas, param, delay) ==
    LET e == DerivEntry(obj, "GLF2_", param) IN
    IF e # Ok THEN Raised(e)
    ELSE DerivResult(Ok, DerivArray(obj, param, toas, delay, dpdGLF2),
                     DerivAffected(obj, param, toas, delay), FALSE)

d_phase_d_GLF0D(obj, toas, param, delay) ==
    LET e == DerivEntry(obj, "GLF0D_", param)
        gltd == <<"GLTD_", Index(param)>>
    IN
    IF e # Ok THEN Raised(e)
    ELSE IF ~HasAttr(obj, gltd) THEN Raised("AttributeError")
    ELSE LET tau == obj.val[gltd]
             f(dt) == dpdGLF0D(tau, dt)
             affected == DerivAffected(obj, param, toas, delay)
         IN  DerivResult(Ok, DerivArray(obj, param, toas, delay, f),
                         affected, affected # {})

\* TauIsZero without the test of line 228.
TauIsZeroNever(obj, param) == FALSE

\* The test of line 228: GLTD_n is exactly 0.
TauIsZero(obj, param) == obj.val[param] = 0

d_phase_d_GLTD(obj, toas, param, delay) ==
    LET e == DerivEntry(obj, "GLTD_", param)
        glf0dnm == <<"GLF0D_", Index(param)>>
    IN
    IF e # Ok THEN Raised(e)
    ELSE IF TauIsZero(obj, param)
    THEN DerivResult(Ok, ZeroArray(Len(toas)), {}, FALSE)
    ELSE IF ~HasAttr(obj, glf0dnm) THEN Raised("AttributeError")
    ELSE LET tau == obj.val[param]
             f(dt) == dpdGLTD(obj.val[glf0dnm], tau, dt)
             affected == DerivAffected(obj, param, toas, delay)
         IN  DerivResult(Ok, DerivArray(obj, param, toas, delay, f),
                         affected, affected # {})

\* ---------------------------------------------------------- state machine
VARIABLES
    self,       \* the Glitch object
    pc,         \* "loading", then "ready" after a setup that returned,
                \* "failed" after one that raised
    err,        \* what the last setup raised, NoErr if it returned
    supplied,   \* the parameters given a value before setup: name -> value
    out         \* the last call: operation, arguments and result

vars == <<self, pc, err, supplied, out>>

FamilyPrefixes == Range(glitch_prop)
Tables == [1..NToa -> TableRows]
Toas(tbl) == [i \in 1..Len(tbl) |-> tbl[i][1]]
Delay(tbl) == [i \in 1..Len(tbl) |-> tbl[i][2]]

Call(op, param, toas, delay, res) ==
    [op |-> op, param |-> param, toas |-> toas, delay |-> delay, res |-> res]

NoCall(op) == Call(op, << >>, << >>, << >>, << >>)

Init ==
    /\ self = Glitch
    /\ pc = "loading"
    /\ err = NoErr
    /\ supplied = << >>
    /\ out = NoCall("init")

\* Calls are synchronous and one at a time: the caller has taken the result
\* of an evaluation before anything else is done with the model.
Evaluations ==
    {"glitch_phase", "d_phase_d_GLPH", "d_phase_d_GLF0", "d_phase_d_GLF1",
     "d_phase_d_GLF2", "d_phase_d_GLF0D", "d_phase_d_GLTD"}

Idle == out.op \notin Evaluations

Return ==
    /\ ~Idle
    /\ out' = NoCall("returned")
    /\ UNCHANGED <<self, pc, err, supplied>>

\* A parameter of the par file gets its value.
Supply ==
    /\ pc = "loading"
    /\ Cardinality(DOMAIN supplied) < MaxSupplied
    /\ \E name \in Names \ DOMAIN supplied :
       \E v \in IF Prefix(name) = GLEP THEN EpochVals ELSE FieldVals :
          /\ self' = SupplyParam(self, name, v)
          /\ supplied' = supplied @@ (name :> v)
    /\ out' = NoCall("supply")
    /\ UNCHANGED <<pc, err>>

\* Glitch.setup(), first or repeated.
SetupCall ==
    /\ pc \in {"loading", "ready"}
    /\ Idle
    /\ \E order \in Orders(Range(GlitchIndices(self.params, 1))) :
          LET r == Setup(self, order) IN
          /\ self' = r.obj
          /\ err' = r.err
          /\ pc' = IF r.err = NoErr THEN "ready" ELSE "failed"
    /\ out' = NoCall(IF pc = "ready" THEN "setup_again" ELSE "setup")
    /\ UNCHANGED supplied

\* Glitch.glitch_phase(toas, delay) on a validated model.
GlitchPhaseCall ==
    /\ pc = "ready"
    /\ Idle
    /\ \E tbl \in Tables :
          out' = Call("glitch_phase", << >>, Toas(tbl), Delay(tbl),
                      glitch_phase(self, Toas(tbl), Delay(tbl)))
    /\ UNCHANGED <<self, pc, err, supplied>>

\* The fitting engine re-fits one of the six scalar fields of an event.
Refitted(obj) ==
    {n \in Range(obj.params) :
        /\ Prefix(n) \in FamilyPrefixes
        /\ obj.val[n] # (IF n \in DOMAIN supplied THEN supplied[n] ELSE 0)}

SetField ==
    /\ pc = "ready"
    /\ Idle
    /\ \E name \in Range(self.params), v \in FieldVals :
          /\ Prefix(name) \in FamilyPrefixes
          /\ self.val[name] # v
          /\ Cardinality(Refitted(SetValue(self, name, v))) <= MaxRefit
          /\ self' = SetValue(self, name, v)
    /\ out' = NoCall("set")
    /\ UNCHANGED <<pc, err, supplied>>

\* A derivative function called by the fitting engine for a parameter of the
\* model.  A call that raises reads neither toas nor delay.
DerivCall(op, d(_, _, _, _)) ==
    /\ pc = "ready"
    /\ Idle
    /\ \E param \in Range(self.params) :
          LET raised == d(self, << >>, param, << >>) IN
          IF raised.status # Ok
          THEN out' = Call(op, param, << >>, << >>, raised)
          ELSE \E tbl \in Tables :
                  out' = Call(op, param, Toas(tbl), Delay(tbl),
                              d(self, Toas(tbl), param, Delay(tbl)))
    /\ UNCHANGED <<self, pc, err, supplied>>

CallGLPH == DerivCall("d_phase_d_GLPH", d_phase_d_GLPH)
CallGLF0 == DerivCall("d_phase_d_GLF0", d_phase_d_GLF0)
CallGLF1 == DerivCall("d_phase_d_GLF1", d_phase_d_GLF1)
CallGLF2 == DerivCall("d_phase_d_GLF2", d_phase_d_GLF2)
CallGLF0D == DerivCall("d_phase_d_GLF0D", d_phase_d_GLF0D)
CallGLTD == DerivCall("d_phase_d_GLTD", d_phase_d_GLTD)

\* Loading, validation, re-validation and the forward model.
Next == Supply \/ SetupCall \/ GlitchPhaseCall \/ Return

Spec == Init /\ [][Next]_vars

\* The par files the evaluation starts from: an epoch for glitch 1 or none,
\* and for the index MaxIndex nothing, the epoch alone, or the epoch, a phase
\* offset and a decay time.
RECURSIVE Load(_, _)
Load(obj, par) ==
    IF par = << >> THEN obj
    ELSE Load(SupplyParam(obj, Head(par)[1], Head(par)[2]), Tail(par))

EvalPars ==
    LET first == {<< >>} \cup {<< <<<<GLEP, 1>>, e>> >> : e \in EpochVals}
        other == {<< >>}
                 \cup {<< <<<<GLEP, MaxIndex>>, e>> >> : e \in EpochVals}
                 \cup {<< <<<<GLEP, MaxIndex>>, e>>, <<<<"GLPH_", MaxIndex>>, 1>>,
                          <<<<"GLTD_", MaxIndex>>, 1>> >> : e \in EpochVals}
    IN  {a \o b : a \in first, b \in other}

\* The states a setup that returned leaves for these par files.
InitEval ==
    \E par \in EvalPars :
       LET obj == Load(Glitch, par) IN
       \E order \in Orders(Range(GlitchIndices(obj.params, 1))) :
          LET r == Setup(obj, order) IN
          /\ r.err = NoErr
          /\ self = r.obj
          /\ pc = "ready"
          /\ err = NoErr
          /\ supplied = [n \in {par[i][1] : i \in 1..Len(par)} |->
                            par[CHOOSE i \in 1..Len(par) : par[i][1] = n][2]]
          /\ out = NoCall("setup")

\* Evaluation and re-fitting of a validated model.
NextEval ==
    \/ SetField
    \/ GlitchPhaseCall
    \/ CallGLPH
    \/ CallGLF0
    \/ CallGLF1
    \/ CallGLF2
    \/ CallGLF0D
    \/ CallGLTD
    \/ Return

SpecEval == InitEval /\ [][NextEval]_vars

\* ------------------------------------------------------ validation claims
Families == Range(glitch_prop)
Epoch(n) == <<GLEP, n>>

\* The indices setup collected from the six families.
Collected == Range(self.glitch_indices)

WasSupplied(name) == name \in DOMAIN supplied

\* The value a parameter had when setup was first called.
ValueBefore(name) == IF WasSupplied(name) THEN supplied[name] ELSE 0

\* The indices the six families of the par file and of the constructor name.
FamilyIndices == {1} \cup {Index(n) : n \in {m \in DOMAIN supplied : Prefix(m) \in Families}}

\* Indices with a nonzero GLF0D and a zero (or absent) GLTD before setup.
Offenders ==
    {n \in FamilyIndices : ValueBefore(<<"GLF0D_", n>>) # 0
                           /\ ValueBefore(<<"GLTD_", n>>) = 0}

\* Collected indices for which no epoch parameter exists before setup.
NoEpochParam == {n \in FamilyIndices : n # 1 /\ ~WasSupplied(Epoch(n))}

AfterFirstSetup == out.op = "setup"

\* C1: after the first setup, if some collected index (index 1 included) was
\* given no epoch, setup has raised MissingParameter("Glitch", GLEP_n) for such
\* an n; whenever setup returned, every collected index has an epoch with a
\* value.
C1_EpochRequired ==
    LET noEpoch == {n \in FamilyIndices : ~WasSupplied(Epoch(n))} IN
    /\ (AfterFirstSetup /\ noEpoch # {}) =>
          /\ pc = "failed"
          /\ \E n \in noEpoch : err = MissingParameter("Glitch", Epoch(n))
    /\ pc = "ready" =>
          \A n \in Collected : HasAttr(self, Epoch(n)) /\ ~IsNone(self, Epoch(n))

EpochOnly ==
    {n \in Indices : WasSupplied(Epoch(n))
                     /\ \A f \in Families : ~WasSupplied(<<f, n>>)}

\* C3: an index given an epoch and nothing else is validated: after a setup
\* that returned its six family parameters exist with value 0, and when every
\* epoch of the model has a value glitch_phase returns without error.
C3_EpochOnlyIndex ==
    /\ pc = "ready" =>
          \A n \in EpochOnly : \A f \in Families :
             HasAttr(self, <<f, n>>) /\ self.val[<<f, n>>] = 0
    /\ (out.op = "glitch_phase" /\ WasSupplied(Epoch(1))) => out.res.status = Ok

\* C4: after a setup that returned, every family parameter of every collected
\* index exists; those not supplied have value 0, and every supplied
\* parameter (families and epochs) has the value it was supplied with.
C4_Normalised ==
    pc = "ready" =>
       /\ \A n \in Collected : \A f \in Families :
             /\ HasAttr(self, <<f, n>>)
             /\ ~WasSupplied(<<f, n>>) =>
                   self.val[<<f, n>>] = 0 /\ ~IsNone(self, <<f, n>>)
       /\ \A name \in DOMAIN supplied :
             /\ HasAttr(self, name)
             /\ ~IsNone(self, name)
             /\ self.val[name] = supplied[name]

\* C4 witness: setup returned, having created a parameter at an index where
\* another family was supplied with a nonzero value.
C4_Witness ==
    /\ pc = "ready"
    /\ \E n \in Collected \ {1} : \E f, g \in Families :
          /\ ~WasSupplied(<<f, n>>) /\ HasAttr(self, <<f, n>>)
          /\ WasSupplied(<<g, n>>) /\ supplied[<<g, n>>] # 0

\* C5: a setup run on a validated model returns, and leaves the set of event
\* indices, the parameters and every parameter value as they were.
C5_Idempotent ==
    [][(pc = "ready" /\ out'.op = "setup_again") =>
          /\ pc' = "ready"
          /\ Range(self'.glitch_indices) = Range(self.glitch_indices)
          /\ self'.params = self.params
          /\ self'.val = self.val
          /\ self'.unset = self.unset]_vars

\* C5 witness: setup has run again on a model in which the first run created
\* parameters.
C5_Witness ==
    /\ out.op = "setup_again"
    /\ \E n \in Collected \ {1} : \E f \in Families :
          ~WasSupplied(<<f, n>>) /\ HasAttr(self, <<f, n>>)

\* ------------------------------------------------------ evaluation claims
DerivOps == Evaluations \ {"glitch_phase"}
LinearOps == DerivOps \ {"d_phase_d_GLTD"}

PhaseOk == out.op = "glitch_phase" /\ out.res.status = Ok
DerivOk == out.op \in DerivOps /\ out.res.status = Ok

\* The events glitch_phase iterates over.
Events == {Index(x) : x \in Range(GlepNames(self))}

\* dt of event n at TOA i of the last call, from the definition in the
\* claims: (timestamp - epoch) * 1 day - delay.
ClaimDt(n, i) == (out.toas[i] - self.val[Epoch(n)]) * TicksPerDay - out.delay[i]

Rows == 1..Len(out.toas)

\* glitch_phase of the last call with event n left out, and with n alone.
PhaseWithout(n) ==
    PhaseLoop(self, SelectSeq(GlepNames(self), LAMBDA x : x # Epoch(n)),
              out.toas, out.delay, PhaseStart(out.toas))

PhaseAlone(n) ==
    PhaseLoop(self, <<Epoch(n)>>, out.toas, out.delay, PhaseStart(out.toas))

\* What event n added to the phase of the last call at TOA i.
Contribution(n, i) == NSub(out.res.phs[i], PhaseWithout(n).phs[i])

\* C6: an event adds exactly 0 to glitch_phase at every TOA with dt <= 0
\* (dt = 0 included), each derivative of the event is exactly 0 there, and a
\* derivative function uses the affected set glitch_phase uses.
C6_NoEffectBefore ==
    /\ PhaseOk =>
          \A n \in Events : \A i \in Rows :
             ClaimDt(n, i) <= 0 => Contribution(n, i) = Zero
    /\ (DerivOk /\ ~IsNone(self, Epoch(Index(out.param)))) =>
          LET n == Index(out.param) IN
          /\ \A i \in Rows : ClaimDt(n, i) <= 0 => out.res.arr[i] = Zero
          /\ (out.op # "d_phase_d_GLTD" \/ self.val[out.param] # 0) =>
                out.res.affected =
                   Affected(Dt(self.val[Epoch(n)], out.toas, out.delay))

\* C6 witness: glitch_phase returned for an event with a nonzero phase
\* offset, one TOA exactly at dt = 0 and one after the glitch.
C6_Witness ==
    /\ PhaseOk
    /\ \E n \in Events : \E i, j \in Rows :
          /\ self.val[<<"GLPH_", n>>] # 0
          /\ ClaimDt(n, i) = 0
          /\ ClaimDt(n, j) > 0
          /\ Contribution(n, j) # Zero

\* phase_offset + dt*(freq_offset + 0.5*dt*freq_deriv_offset
\*                    + (1/6)*dt^2*freq_deriv2_offset), over the denominator 6
ClaimPoly(n, dt) ==
    Rat(6 * self.val[<<"GLPH_", n>>]
          + dt * (6 * self.val[<<"GLF0_", n>>]
                    + 3 * dt * self.val[<<"GLF1_", n>>]
                    + dt * dt * self.val[<<"GLF2_", n>>]),
        6)

\* C7: an event with GLF0D_n = 0 adds exactly the polynomial at every affected
\* TOA, whatever GLTD_n is, and its decay term (hence the division by
\* GLTD_n) is not evaluated.
C7_PurePolynomial ==
    PhaseOk =>
       \A n \in Events :
          self.val[<<"GLF0D_", n>>] = 0 =>
             /\ n \notin out.res.decayed
             /\ n \notin out.res.divzero
             /\ \A i \in Rows :
                   ClaimDt(n, i) > 0 =>
                      Contribution(n, i) = ClaimPoly(n, ClaimDt(n, i))

\* C7 witness: glitch_phase returned for an event with GLF0D = 0, a nonzero
\* GLTD and a nonzero polynomial at an affected TOA.
C7_Witness ==
    /\ PhaseOk
    /\ \E n \in Events : \E i \in Rows :
          /\ self.val[<<"GLF0D_", n>>] = 0
          /\ self.val[<<"GLTD_", n>>] # 0
          /\ ClaimDt(n, i) > 0
          /\ Contribution(n, i) # Zero

RECURSIVE SumAlone(_, _)
SumAlone(S, i) ==
    IF S = {} THEN Zero
    ELSE LET n == CHOOSE m \in S : TRUE
         IN  NAdd(PhaseAlone(n).phs[i], SumAlone(S \ {n}, i))

\* C8: the phase glitch_phase returns is, at every TOA, the sum of what each
\* event gives alone, and is the same for every order of the events.
C8_Additive ==
    PhaseOk =>
       /\ \A i \in Rows : out.res.phs[i] = SumAlone(Events, i)
       /\ \A order \in Orders(Range(GlepNames(self))) :
             PhaseLoop(self, order, out.toas, out.delay,
                       PhaseStart(out.toas)).phs = out.res.phs

\* C8 witness: glitch_phase returned with two events that both add a nonzero
\* phase at the same TOA.
C8_Witness ==
    /\ PhaseOk
    /\ \E n, m \in Events : \E i \in Rows :
          /\ n # m
          /\ PhaseAlone(n).phs[i] # Zero
          /\ PhaseAlone(m).phs[i] # Zero

\* The changes of a field the linearity is tested with.
Deltas == {-1, 2}

\* d/dtau of GLF0D * tau * (1 - exp(-dt/tau)) by the product and chain rules:
\* GLF0D * ((1 - exp(-x)) - x * exp(-x)) with x = dt/tau, in cycles per day.
ClaimDTau(glf0d, tau, dt) ==
    LET E == ExpNeg(dt, tau * TicksPerDay) IN
    NSub(NScale(NSub(Num(1), E), glf0d * TicksPerDay, 1),
         NScale(E, glf0d * dt, tau))

C10_ZeroTau ==
    (/\ out.op = "d_phase_d_GLTD"
     /\ Prefix(out.param) = "GLTD_"
     /\ self.val[out.param] = 0) =>
       /\ out.res.status = Ok
       /\ Len(out.toas) = NToa
       /\ out.res.arr = ZeroArray(Len(out.toas))
       /\ ~out.res.divided

\* C10 witness: d_phase_d_GLTD was called with GLTD_n = 0, GLF0D_n # 0 and a
\* TOA after the glitch.
C10_Witness ==
    /\ out.op = "d_phase_d_GLTD"
    /\ Prefix(out.param) = "GLTD_"
    /\ self.val[out.param] = 0
    /\ out.res.status = Ok
    /\ self.val[<<"GLF0D_", Index(out.param)>>] # 0
    /\ ~IsNone(self, Epoch(Index(out.param)))
    /\ \E i \in Rows : ClaimDt(Index(out.param), i) > 0

====
